---- MODULE Spec2Model ----
(***************************************************************************)
(* A model of the typed monero-wallet-rpc client (class Wallet): the       *)
(* constructor with its warm-up call, the dispatch primitive               *)
(* Wallet.request, the sixteen public operations and the helper convert.   *)
(*                                                                         *)
(* An invocation of a public operation runs in two steps, as the async     *)
(* function does: the part before the await (arguments defaulted, request  *)
(* built and posted) and the part after it (the transport's outcome        *)
(* classified, the success payload unwrapped).  In between the invocation  *)
(* is in flight, and any number of them may be.                            *)
(*                                                                         *)
(* Two libraries are used as their call sites show them: request-promise   *)
(* (post returns a promise that resolves with the parsed body or rejects)  *)
(* and await-protect (protect turns that promise into a Result whose .res  *)
(* or .err holds the value it settled with).                               *)
(***************************************************************************)
EXTENDS Integers, Sequences, FiniteSets, Bags, TLC

VARIABLES
    given,          \* the arguments the constructor was called with
    wallet,         \* the client: hostname, port, user, pass
    pending,        \* bag of the invocations whose POST is in flight
    warmup,         \* what became of the constructor's unawaited call
    last,           \* the invocation that settled last, as its caller sees it
    destinations,   \* the caller's destinations list (one object, reused)
    supplied,       \* the decimal amounts the caller wrote into that list
    issued          \* number of caller-issued invocations so far

vars == <<given, wallet, pending, warmup, last, destinations, supplied, issued>>

\* Bounds of the model.
MaxCalls == 2
MaxDests == 1

(***************************************************************************)
(* JavaScript values.  A number is a decimal mant * 10^exp in normal form  *)
(* (mant not divisible by 10, zero is 0 * 10^0), which keeps 1e12 and its  *)
(* powers inside TLC's integers; binary rounding error is not modelled.    *)
(***************************************************************************)
Undefined == [type |-> "undefined"]
Null == [type |-> "null"]
Bool(b) == [type |-> "boolean", bool |-> b]
Str(s) == [type |-> "string", str |-> s]
Obj(fields) == [type |-> "object", fields |-> fields]
Arr(items) == [type |-> "array", items |-> items]

RECURSIVE Normal(_, _)
Normal(m, e) ==
    IF m = 0 THEN [mant |-> 0, exp |-> 0]
    ELSE IF m % 10 = 0 THEN Normal(m \div 10, e + 1)
    ELSE [mant |-> m, exp |-> e]

Num(m, e) == [type |-> "number"] @@ Normal(m, e)

RECURSIVE Pow10(_)
Pow10(k) == IF k = 0 THEN 1 ELSE 10 * Pow10(k - 1)

\* new Error(message), and the TypeError the runtime raises.
NewError(message) == [type |-> "error", name |-> "Error", message |-> message]
TypeError == [type |-> "error", name |-> "TypeError", message |-> "Cannot read properties of undefined"]

\* ToBoolean: what `if (v)`, `!v` and `v || d` test.
Truthy(v) ==
    CASE v.type \in {"undefined", "null"} -> FALSE
      [] v.type = "boolean" -> v.bool
      [] v.type = "string" -> v.str # ""
      [] v.type = "number" -> v.mant # 0
      [] OTHER -> TRUE

\* a || b
Or(a, b) == IF Truthy(a) THEN a ELSE b

\* Reading a property of undefined or null throws.
Nullish(v) == v.type \in {"undefined", "null"}

\* v.k for a v that is not nullish: a missing property reads undefined.
Get(v, k) ==
    CASE v.type = "object" -> IF k \in DOMAIN v.fields THEN v.fields[k] ELSE Undefined
      [] v.type = "error" -> IF k = "message" THEN Str(v.message) ELSE Undefined
      [] OTHER -> Undefined

\* String(v), as new Error(v) stores its message (undefined gives "").
ToMessage(v) ==
    CASE v.type = "string" -> v.str
      [] v.type = "undefined" -> ""
      [] v.type = "null" -> "null"
      [] v.type = "boolean" -> IF v.bool THEN "true" ELSE "false"
      [] v.type = "number" ->
            IF v.exp = 0 THEN ToString(v.mant)
            ELSE ToString(v.mant) \o "e" \o ToString(v.exp)
      [] OTHER -> "[object Object]"

(***************************************************************************)
(* await-protect: Result.ok / Result.err, read through .res and .err, and  *)
(* protect(promise), which turns a settled promise into a Result.          *)
(***************************************************************************)
ResultOk(x) == [ok |-> TRUE, res |-> x, err |-> Undefined]
ResultErr(e) == [ok |-> FALSE, res |-> Undefined, err |-> e]

Rejects(v) == [kind |-> "reject", value |-> v]
Resolves(body) == [kind |-> "resolve", value |-> body]

protect(outcome) ==
    IF outcome.kind = "reject" THEN ResultErr(outcome.value)
    ELSE ResultOk(outcome.value)

\* How a function body ends: with a returned value or a thrown one.
Return(v) == [how |-> "return", value |-> v]
Throw(e) == [how |-> "throw", value |-> e]

\* How the promise of an async function settles.
Fulfilled(v) == [settled |-> "fulfilled", value |-> v]
Rejected(e) == [settled |-> "rejected", value |-> e]

(***************************************************************************)
(* The constructor's defaults and the dispatch primitive.                  *)
(***************************************************************************)
DefaultHostname == Str("127.0.0.1")
DefaultPort == Num(18082, 0)
CorruptedText == "Found corrupted Monero JSON RPC response."

NewWallet(hostname, port, user, pass) ==
    [hostname |-> Or(hostname, DefaultHostname),
     port |-> Or(port, DefaultPort),
     user |-> Or(user, Str("")),
     pass |-> Or(pass, Str(""))]

\* The json body and the options of the POST (request, before the await).
RequestJson(method, params) ==
    LET p == IF params = Undefined THEN Obj(<<>>) ELSE params
        base == [jsonrpc |-> Str("2.0"), id |-> Str("0"), method |-> Str(method)]
    IN  IF Truthy(p) THEN Obj(base @@ [params |-> p]) ELSE Obj(base)

\* Mutant of RequestAuth: the auth block attached whatever the user is.
RequestAuthAlways(w) ==
    [auth |-> Obj([user |-> w.user, pass |-> w.pass, sendImmediately |-> Bool(FALSE)])]

RequestAuth(w) ==
    IF Truthy(w.user)
    THEN [auth |-> Obj([user |-> w.user, pass |-> w.pass, sendImmediately |-> Bool(FALSE)])]
    ELSE <<>>

RequestPost(w, method, params) ==
    [url |-> [scheme |-> "http", hostname |-> w.hostname, port |-> w.port, path |-> "/json_rpc"],
     options |-> Obj([forever |-> Bool(TRUE), json |-> RequestJson(method, params)] @@ RequestAuth(w))]

\* Mutant of RequestSettle: a protocol error reported with the fixed text.
RequestSettleFixedText(outcome) ==
    LET r == protect(outcome)
        res == r.res
        err == r.err
    IN  IF Truthy(err) THEN Return(ResultErr(err))
        ELSE IF Nullish(res) THEN Throw(TypeError)
        ELSE IF Truthy(Get(res, "error")) \/ ~Truthy(Get(res, "result"))
             THEN Return(ResultErr(NewError(CorruptedText)))
        ELSE Return(ResultOk(Get(res, "result")))

\* request, after the await: the transport's outcome classified.
RequestSettle(outcome) ==
    LET r == protect(outcome)
        res == r.res
        err == r.err
    IN  IF Truthy(err) THEN Return(ResultErr(err))
        ELSE IF Nullish(res) THEN Throw(TypeError)
        ELSE IF Truthy(Get(res, "error"))
             THEN Return(ResultErr(NewError(ToMessage(Get(Get(res, "error"), "message")))))
        ELSE IF ~Truthy(Get(res, "result"))
             THEN Return(ResultErr(NewError(CorruptedText)))
        ELSE Return(ResultOk(Get(res, "result")))

(***************************************************************************)
(* convert: Number(amount) * 1e12, toFixed(0), Number.                     *)
(***************************************************************************)
AtomicExp == 12

\* toFixed(0) then Number: the nearest integer, a tie going away from zero.
ToFixed0(n) ==
    IF n.exp >= 0 THEN n
    ELSE LET p == Pow10(0 - n.exp)
             a == IF n.mant < 0 THEN 0 - n.mant ELSE n.mant
             q == (2 * a + p) \div (2 * p)
         IN  Num(IF n.mant < 0 THEN 0 - q ELSE q, 0)

convert(amount) == ToFixed0(Num(amount.mant, amount.exp + AtomicExp))

(***************************************************************************)
(* The public operations, before the await: the RPC method and the params  *)
(* each one hands to request.  An omitted argument is undefined.           *)
(***************************************************************************)
createWalletParams(filename, password, language) ==
    Obj([filename |-> Or(filename, Str("monero_wallet")),
         password |-> Or(password, Str("")),
         language |-> Or(language, Str("English"))])

openWalletParams(filename, password) ==
    Obj([filename |-> Or(filename, Str("monero_wallet")),
         password |-> Or(password, Str(""))])

\* destinations.forEach((dest) => dest.amount = convert(dest.amount)):
\* the caller's own objects are overwritten.
ConvertEach(dests) ==
    [i \in DOMAIN dests |-> Obj([dests[i].fields EXCEPT !.amount = convert(@)])]

\* options = {} when the argument is omitted.
OptionsOf(options) == IF options = Undefined THEN Obj(<<>>) ELSE options

\* Mutant of transferParams: mixin and priority passed on without a default.
transferParamsNoDefault(dests, options) ==
    LET o == OptionsOf(options)
    IN  Obj([destinations |-> Arr(dests),
             mixin |-> Get(o, "mixin"),
             unlock_time |-> Or(Get(o, "unlockTime"), Num(0, 0)),
             payment_id |-> Or(Get(o, "pid"), Null),
             do_not_relay |-> Or(Get(o, "doNotRelay"), Bool(FALSE)),
             priority |-> Get(o, "priority"),
             get_tx_hex |-> Or(Get(o, "getTxHex"), Bool(FALSE)),
             get_tx_key |-> Or(Get(o, "getTxKey"), Bool(FALSE))])

transferParams(dests, options) ==
    LET o == OptionsOf(options)
    IN  Obj([destinations |-> Arr(dests),
             mixin |-> Or(Get(o, "mixin"), Num(4, 0)),
             unlock_time |-> Or(Get(o, "unlockTime"), Num(0, 0)),
             payment_id |-> Or(Get(o, "pid"), Null),
             do_not_relay |-> Or(Get(o, "doNotRelay"), Bool(FALSE)),
             priority |-> Or(Get(o, "priority"), Num(0, 0)),
             get_tx_hex |-> Or(Get(o, "getTxHex"), Bool(FALSE)),
             get_tx_key |-> Or(Get(o, "getTxKey"), Bool(FALSE))])

transferSplitParams(dests, options) ==
    LET o == OptionsOf(options)
    IN  Obj(transferParams(dests, options).fields
            @@ [new_algorithm |-> Or(Get(o, "newAlgorithm"), Bool(FALSE))])

sweepAllParams(address) == Obj([address |-> address])
getPaymentsParams(pid) == Obj([payment_id |-> pid])
getBulkPaymentsParams(pids, minHeight) == Obj([payment_ids |-> pids, min_block_height |-> minHeight])
incomingTransfersParams(type) == Obj([transfer_type |-> type])
queryKeyParams(type) == Obj([key_type |-> type])
makeIntegratedAddressParams(pid) == Obj([payment_id |-> pid])
splitIntegratedAddressParams(address) == Obj([integrated_address |-> address])

(***************************************************************************)
(* The public operations, after the await: what each makes of the Result   *)
(* request returned.                                                       *)
(***************************************************************************)
\* if (r.res) { return Result.ok(r.res.<key>) }  return r
Unwrap(r, key) == IF Truthy(r.res) THEN ResultOk(Get(r.res, key)) ELSE r

\* Mutant of addressResume: the key of a neighbouring operation.
addressResumeOtherKey(r) == Unwrap(r, "integrated_address")

addressResume(r) == Unwrap(r, "address")
sweepDustResume(r) == Unwrap(r, "tx_hash_list")
getPaymentsResume(r) == Unwrap(r, "payments")
getBulkPaymentsResume(r) == Unwrap(r, "payments")
incomingTransfersResume(r) == Unwrap(r, "transfers")
queryKeyResume(r) == Unwrap(r, "key")
makeIntegratedAddressResume(r) == Unwrap(r, "integrated_address")
getHeightResume(r) == Unwrap(r, "height")

Resume(op, r) ==
    CASE op = "address" -> addressResume(r)
      [] op = "sweepDust" -> sweepDustResume(r)
      [] op = "getPayments" -> getPaymentsResume(r)
      [] op = "getBulkPayments" -> getBulkPaymentsResume(r)
      [] op = "incomingTransfers" -> incomingTransfersResume(r)
      [] op = "queryKey" -> queryKeyResume(r)
      [] op = "makeIntegratedAddress" -> makeIntegratedAddressResume(r)
      [] op = "getHeight" -> getHeightResume(r)
      [] OTHER -> r

\* The promise of the async operation: a throw inside request rejects it.
Complete(op, dispatched) ==
    IF dispatched.how = "throw" THEN Rejected(dispatched.value)
    ELSE Fulfilled(Resume(op, dispatched.value))

(***************************************************************************)
(* Inputs: the arguments callers pass and the outcomes of the transport.   *)
(***************************************************************************)
\* new Wallet(), and new Wallet(hostname, port, user, pass) without and with a user.
ConstructorArgs ==
    {<<Undefined, Undefined, Undefined, Undefined>>,
     <<Str("node.example"), Num(28082, 0), Str(""), Str("secret")>>,
     <<Str("node.example"), Num(28082, 0), Str("rpcuser"), Str("secret")>>}

\* createWallet() and createWallet(filename, password, language); openWallet alike.
WalletArgs ==
    {<<Undefined, Undefined, Undefined>>,
     <<Str("savings"), Str("hunter2"), Str("Deutsch")>>}
OptionsArgs ==
    {Undefined,
     Obj([mixin |-> Num(7, 0), unlockTime |-> Num(10, 0), priority |-> Num(2, 0),
          doNotRelay |-> Bool(TRUE)])}
AddressArg == Str("4abc")
PidArg == Str("pid1")
TypeArg == Str("all")

\* Decimal amounts: one atomic unit, 1.6 and 1.4 atomic units, 2.5 coins.
Amounts == {Num(1, -12), Num(16, -13), Num(14, -13), Num(25, -1)}
AmountLists == UNION {[1..n -> Amounts] : n \in 1..MaxDests}

\* A result payload holding every field some operation unwraps.
Payload ==
    Obj([address |-> Str("4abc"), tx_hash_list |-> Arr(<<Str("h1")>>),
         payments |-> Arr(<<Str("p1")>>), transfers |-> Arr(<<Str("t1")>>),
         key |-> Str("seed"), integrated_address |-> Str("4int"),
         height |-> Num(1500, 0), balance |-> Num(1000, 0),
         unlocked_balance |-> Num(500, 0)])

RpcError(c, m) == Obj([code |-> Num(c, 0), message |-> Str(m)])

Rejections == {NewError("connect ECONNREFUSED"), Undefined}
ResultPayloads == {Payload, Num(0, 0)}
RpcErrors == {RpcError(-1, "Invalid password"), RpcError(-2, CorruptedText)}
Bodies ==
    {Undefined, Obj(<<>>)}
    \cup {Obj([result |-> x]) : x \in ResultPayloads}
    \cup {Obj([error |-> e]) : e \in RpcErrors}
    \cup {Obj([result |-> Payload, error |-> RpcError(-1, "Invalid password")])}

Outcomes == {Rejects(v) : v \in Rejections} \cup {Resolves(b) : b \in Bodies}

(***************************************************************************)
(* The constructor: the fields, then this.request("get_balance") with the  *)
(* promise dropped.                                                        *)
(***************************************************************************)
Invocation(op, args, w, method, params) ==
    [op |-> op, args |-> args, post |-> RequestPost(w, method, params)]

\* Mutant of constructor: the fields set and no warm-up request made.
constructorNoWarmup(hostname, port, user, pass) ==
    [this |-> NewWallet(hostname, port, user, pass), inflight |-> EmptyBag]

constructor(hostname, port, user, pass) ==
    LET this == NewWallet(hostname, port, user, pass)
    IN  [this |-> this,
         inflight |-> SetToBag({Invocation("constructor", <<>>, this, "get_balance", Undefined)})]

NoCall == [op |-> "none"]

\* The state after new Wallet(...), the caller holding a destinations list.
Constructed(a, amounts) ==
    LET c == constructor(a[1], a[2], a[3], a[4])
    IN  /\ given = a
        /\ wallet = c.this
        /\ pending = c.inflight
        /\ warmup = "pending"
        /\ last = NoCall
        /\ supplied = amounts
        /\ destinations =
            [i \in DOMAIN amounts |-> Obj([amount |-> amounts[i], address |-> AddressArg])]
        /\ issued = 0

NoArguments == <<Undefined, Undefined, Undefined, Undefined>>

Init == \E a \in ConstructorArgs : Constructed(a, <<Num(1, -12)>>)

(***************************************************************************)
(* One action per public operation (its part before the await).            *)
(***************************************************************************)
Invoke(op, args, method, params) ==
    /\ issued < MaxCalls
    /\ issued' = issued + 1
    /\ pending' = pending (+) SetToBag({Invocation(op, args, wallet, method, params)})
    /\ UNCHANGED <<given, wallet, warmup, last, supplied>>

createWallet ==
    \E a \in WalletArgs :
        /\ Invoke("createWallet", [filename |-> a[1], password |-> a[2], language |-> a[3]],
                  "create_wallet", createWalletParams(a[1], a[2], a[3]))
        /\ UNCHANGED destinations

openWallet ==
    \E a \in WalletArgs :
        /\ Invoke("openWallet", [filename |-> a[1], password |-> a[2]],
                  "open_wallet", openWalletParams(a[1], a[2]))
        /\ UNCHANGED destinations

stopWallet ==
    Invoke("stopWallet", <<>>, "stop_wallet", Undefined) /\ UNCHANGED destinations

getBalance ==
    Invoke("getBalance", <<>>, "get_balance", Undefined) /\ UNCHANGED destinations

address ==
    Invoke("address", <<>>, "get_address", Undefined) /\ UNCHANGED destinations

\* destinations.forEach on a missing argument throws before anything is sent.
ThrowsEarly(op) ==
    /\ issued < MaxCalls
    /\ issued' = issued + 1
    /\ last' = [op |-> op, posts |-> 0, completion |-> Rejected(TypeError)]
    /\ UNCHANGED <<given, wallet, pending, warmup, destinations, supplied>>

transfer ==
    \E passed \in BOOLEAN, options \in OptionsArgs :
        IF passed
        THEN /\ destinations' = ConvertEach(destinations)
             /\ Invoke("transfer", [options |-> options],
                       "transfer", transferParams(destinations', options))
        ELSE ThrowsEarly("transfer")

transferSplit ==
    \E passed \in BOOLEAN, options \in OptionsArgs :
        IF passed
        THEN /\ destinations' = ConvertEach(destinations)
             /\ Invoke("transferSplit", [options |-> options],
                       "transfer_split", transferSplitParams(destinations', options))
        ELSE ThrowsEarly("transferSplit")

sweepDust ==
    Invoke("sweepDust", <<>>, "sweep_dust", Undefined) /\ UNCHANGED destinations

sweepAll ==
    Invoke("sweepAll", <<>>, "sweep_all", sweepAllParams(AddressArg)) /\ UNCHANGED destinations

getPayments ==
    Invoke("getPayments", <<>>, "get_payments", getPaymentsParams(PidArg))
    /\ UNCHANGED destinations

getBulkPayments ==
    Invoke("getBulkPayments", <<>>, "get_bulk_payments",
           getBulkPaymentsParams(Arr(<<PidArg>>), Num(100, 0)))
    /\ UNCHANGED destinations

incomingTransfers ==
    Invoke("incomingTransfers", <<>>, "incoming_transfers", incomingTransfersParams(TypeArg))
    /\ UNCHANGED destinations

queryKey ==
    Invoke("queryKey", <<>>, "query_key", queryKeyParams(Str("view_key")))
    /\ UNCHANGED destinations

makeIntegratedAddress ==
    Invoke("makeIntegratedAddress", <<>>, "make_integrated_address",
           makeIntegratedAddressParams(PidArg))
    /\ UNCHANGED destinations

splitIntegratedAddress ==
    Invoke("splitIntegratedAddress", <<>>, "split_integrated_address",
           splitIntegratedAddressParams(Str("4int")))
    /\ UNCHANGED destinations

getHeight ==
    Invoke("getHeight", <<>>, "getheight", Undefined) /\ UNCHANGED destinations

(***************************************************************************)
(* The transport settles one POST in flight, and the invocation that       *)
(* awaited it runs to its end.                                             *)
(***************************************************************************)
\* What the caller of the invocation gets to see.
Settled(c, outcome) ==
    LET dispatched == RequestSettle(outcome)
    IN  [op |-> c.op, posts |-> 1, outcome |-> outcome, dispatched |-> dispatched,
         completion |-> Complete(c.op, dispatched)]

\* The constructor holds no reference to the warm-up's promise.
WarmupFate(outcome) ==
    LET dispatched == RequestSettle(outcome)
    IN  IF dispatched.how = "throw" THEN "unhandled rejection"
        ELSE IF dispatched.value.ok THEN "ok dropped" ELSE "err dropped"

Deliver(c, outcome) ==
    IF c.op = "constructor"
    THEN /\ warmup' = WarmupFate(outcome)
         /\ UNCHANGED last
    ELSE /\ last' = Settled(c, outcome)
         /\ UNCHANGED warmup

TransportSettles(c, outcome) ==
    /\ pending' = pending (-) SetToBag({c})
    /\ Deliver(c, outcome)
    /\ UNCHANGED <<given, wallet, destinations, supplied, issued>>

TransportRejects ==
    \E c \in BagToSet(pending), v \in Rejections : TransportSettles(c, Rejects(v))

TransportResolves ==
    \E c \in BagToSet(pending), body \in Bodies : TransportSettles(c, Resolves(body))

Next ==
    \/ createWallet
    \/ openWallet
    \/ stopWallet
    \/ getBalance
    \/ address
    \/ transfer
    \/ transferSplit
    \/ sweepDust
    \/ sweepAll
    \/ getPayments
    \/ getBulkPayments
    \/ incomingTransfers
    \/ queryKey
    \/ makeIntegratedAddress
    \/ splitIntegratedAddress
    \/ getHeight
    \/ TransportRejects
    \/ TransportResolves

Spec == Init /\ [][Next]_vars

\* Transfers alone, over the destinations lists a caller may hold.
InitTransfer ==
    \E amounts \in AmountLists :
        Constructed(NoArguments, amounts)

NextTransfer ==
    \/ transfer
    \/ transferSplit
    \/ TransportRejects
    \/ TransportResolves

SpecTransfer == InitTransfer /\ [][NextTransfer]_vars

(***************************************************************************)
(* The claims.  What the specification lists for each operation: its RPC   *)
(* method and the key it unwraps ("" for none).                            *)
(***************************************************************************)
Inventory ==
    [createWallet |-> <<"create_wallet", "">>,
     openWallet |-> <<"open_wallet", "">>,
     stopWallet |-> <<"stop_wallet", "">>,
     getBalance |-> <<"get_balance", "">>,
     address |-> <<"get_address", "address">>,
     transfer |-> <<"transfer", "">>,
     transferSplit |-> <<"transfer_split", "">>,
     sweepDust |-> <<"sweep_dust", "tx_hash_list">>,
     sweepAll |-> <<"sweep_all", "">>,
     getPayments |-> <<"get_payments", "payments">>,
     getBulkPayments |-> <<"get_bulk_payments", "payments">>,
     incomingTransfers |-> <<"incoming_transfers", "transfers">>,
     queryKey |-> <<"query_key", "key">>,
     makeIntegratedAddress |-> <<"make_integrated_address", "integrated_address">>,
     splitIntegratedAddress |-> <<"split_integrated_address", "">>,
     getHeight |-> <<"getheight", "height">>]

InFlight == BagToSet(pending)
CallerInFlight == {c \in InFlight : c.op # "constructor"}
JsonOf(c) == Get(c.post.options, "json")
ParamsOf(c) == Get(JsonOf(c), "params")

\* The last invocation got an answer from the transport.
Answered == last.op # "none" /\ last.posts = 1
HasField(v, k) == v.type = "object" /\ k \in DOMAIN v.fields
Body == last.outcome.value

\* What the specification makes of an outcome of the transport.
KindOf(outcome) ==
    IF outcome.kind = "reject" THEN "transport"
    ELSE IF HasField(outcome.value, "error") THEN "protocol"
    ELSE IF ~HasField(outcome.value, "result") THEN "malformed"
    ELSE "ok"

\* The payload the operation owes its caller for a result X.
Owed(op, x) == IF Inventory[op][2] = "" \/ Nullish(x) THEN x ELSE Get(x, Inventory[op][2])

\* C1: whenever the transport resolves with an envelope that has a `result`
\* field X (falsy payloads included) and no `error` field, the operation
\* returns Ok carrying X, or the documented subfield of X for a field-unwrap
\* operation, and never an Err.
C1_ResultEnvelopeReturnsOk ==
    (/\ Answered
     /\ last.outcome.kind = "resolve"
     /\ HasField(Body, "result")
     /\ ~HasField(Body, "error"))
    => last.completion = Fulfilled(ResultOk(Owed(last.op, Get(Body, "result"))))

\* The last invocation was answered with an envelope {error: {code, message}}.
ErrorEnvelope ==
    /\ Answered
    /\ last.outcome.kind = "resolve"
    /\ HasField(Body, "error")
    /\ HasField(Get(Body, "error"), "code")
    /\ HasField(Get(Body, "error"), "message")

C3_ClassifiedAndDistinguished ==
    (Answered /\ last.dispatched.how = "return") =>
        /\ CASE KindOf(last.outcome) = "transport" ->
                    last.dispatched.value = ResultErr(last.outcome.value)
             [] KindOf(last.outcome) = "ok" ->
                    last.dispatched.value = ResultOk(Get(Body, "result"))
             [] OTHER -> ~last.dispatched.value.ok
        /\ \A other \in Outcomes :
                KindOf(other) # KindOf(last.outcome) => RequestSettle(other) # last.dispatched

\* C4: the promise of every public operation is fulfilled with a Result (Ok
\* or Err) whatever the arguments and the transport's outcome; it is never
\* rejected.
C4_AlwaysFulfilledWithResult ==
    last.op # "none" =>
        /\ last.completion.settled = "fulfilled"
        /\ last.completion.value.ok \in BOOLEAN

\* C5: every amount of every outbound transfer or transferSplit request is
\* the caller's decimal amount converted to atomic units exactly once, also
\* when the same destinations list is passed to successive calls.
C5_ConvertedExactlyOnce ==
    \A c \in CallerInFlight :
        c.op \in {"transfer", "transferSplit"} =>
            LET sent == Get(ParamsOf(c), "destinations").items
            IN  /\ Len(sent) = Len(supplied)
                /\ \A i \in DOMAIN sent : Get(sent[i], "amount") = convert(supplied[i])

\* C6: an omitted optional argument goes out as its documented default:
\* filename "monero_wallet" and password "" for createWallet and openWallet;
\* mixin 4, unlock_time 0, priority 0 and do_not_relay false for transfer
\* and transferSplit; and a constructor called without arguments targets
\* 127.0.0.1:18082 with empty user and pass.
C6_OmittedArgumentsTakeDefaults ==
    /\ \A c \in CallerInFlight :
        /\ (c.op \in {"createWallet", "openWallet"} /\ c.args.filename = Undefined)
            => Get(ParamsOf(c), "filename") = Str("monero_wallet")
        /\ (c.op \in {"createWallet", "openWallet"} /\ c.args.password = Undefined)
            => Get(ParamsOf(c), "password") = Str("")
        /\ (c.op \in {"transfer", "transferSplit"} /\ c.args.options = Undefined)
            => /\ Get(ParamsOf(c), "mixin") = Num(4, 0)
               /\ Get(ParamsOf(c), "unlock_time") = Num(0, 0)
               /\ Get(ParamsOf(c), "priority") = Num(0, 0)
               /\ Get(ParamsOf(c), "do_not_relay") = Bool(FALSE)
    /\ given = NoArguments =>
        /\ wallet.user = Str("") /\ wallet.pass = Str("")
        /\ \A c \in InFlight :
            /\ c.post.url.hostname = Str("127.0.0.1")
            /\ c.post.url.port = Num(18082, 0)

C6_Witness ==
    /\ given = NoArguments
    /\ \E c \in CallerInFlight : c.op = "transferSplit" /\ c.args.options = Undefined
    /\ \E c \in CallerInFlight : c.op = "createWallet" /\ c.args.filename = Undefined

\* C7: every operation sends the RPC method the inventory lists for it; a
\* field-unwrap operation returns Ok(X) for a dispatch result Ok({key: X})
\* under its listed key and the dispatch primitive's Err unchanged; a
\* pass-through operation returns the dispatch primitive's Result unchanged.
C7_MethodAndUnwrapAsListed ==
    /\ \A c \in CallerInFlight : Get(JsonOf(c), "method") = Str(Inventory[c.op][1])
    /\ (Answered /\ last.dispatched.how = "return") =>
        LET r == last.dispatched.value
            key == Inventory[last.op][2]
        IN  /\ last.completion.settled = "fulfilled"
            /\ IF key # "" /\ r.ok
               THEN last.completion.value = ResultOk(Get(r.res, key))
               ELSE last.completion.value = r

C7_Witness ==
    /\ Answered
    /\ last.op = "address"
    /\ last.dispatched = Return(ResultOk(Payload))
    /\ last.completion = Fulfilled(ResultOk(Str("4abc")))

\* C8: every request, the warm-up included, carries basic-auth credentials
\* exactly when the configured user is not empty, and then they are the
\* configured user and pass with sendImmediately false.
C8_AuthIffUserConfigured ==
    \A c \in InFlight :
        /\ HasField(c.post.options, "auth") <=> wallet.user # Str("")
        /\ HasField(c.post.options, "auth") =>
            Get(c.post.options, "auth") =
                Obj([user |-> wallet.user, pass |-> wallet.pass,
                     sendImmediately |-> Bool(FALSE)])

C8_Witness ==
    /\ \E c \in InFlight : c.op = "constructor" /\ HasField(c.post.options, "auth")
    /\ \E c \in CallerInFlight : HasField(c.post.options, "auth")

C10_OnePostOneResult ==
    /\ wallet = NewWallet(given[1], given[2], given[3], given[4])
    /\ last.op # "none" =>
        /\ last.posts = 1
        /\ last.completion.settled = "fulfilled"

====
